---- MODULE Spec2Model ----
(***************************************************************************)
(* A model of the DecimalFormat class of java-decimal-format               *)
(* (src/src/DecimalFormat.ts): the pattern compiler, the number renderer   *)
(* with its eight rounding modes, and the accessors of one instance.       *)
(*                                                                         *)
(* Strings are sequences of one-character strings.                         *)
(*                                                                         *)
(* Numbers.  A finite JavaScript number is a record                        *)
(*     [kind |-> "finite", neg, c, d, e]                                   *)
(* standing for the IEEE-754 double that lies below (e = -1), at (e = 0)   *)
(* or above (e = 1) the double nearest to the decimal c / 10^d, with sign  *)
(* bit neg (so -0 is neg = TRUE, c = 0).  e # 0 only arises from the       *)
(* rounding error of a floating-point product (MulUlp) or quotient         *)
(* (QuotientUlp).  The inputs of format are decimal literals with Prec     *)
(* fraction digits.  Quantities that the code compares are "reals"         *)
(* [c, d, p, e]: c / 10^d plus p times the tolerance 1e-10 plus e          *)
(* rounding errors, ordered lexicographically: on the inputs of the model  *)
(* a rounding error is below 1e-12 and 1e-10 is below the decimal          *)
(* resolution, and every threshold the code compares against is a          *)
(* multiple of 0.5 shifted by a multiple of 1e-10.                         *)
(***************************************************************************)
EXTENDS Integers, Sequences, FiniteSets, TLC

(* ------------------------------------------------------------------ *)
(* Bounds of the model                                                 *)
(* ------------------------------------------------------------------ *)

\* fraction digits of the decimal literals given to format
Prec == 3

\* the rounding specification gives format every decimal with
\* |value| * 10^Prec <= MaxMag (and the magnitudes of TieMagnitudes)
MaxMag == 30

\* setters are called at most this many times after a compilation
MaxSetterCalls == 1

\* digit counts given to the digit-bound setters and to setGroupingSize
MaxDigits == 1

\* length of the sub-patterns the scanner specification gives parseSubpattern
MaxPatternLen == 4

(* ------------------------------------------------------------------ *)
(* Characters and strings                                              *)
(* ------------------------------------------------------------------ *)

\* the per-mille sign U+2030, one character
Permille == "permille"

\* the infinity sign U+221E, one character
InfinityGlyph == "Inf"

DigitChars == <<"0", "1", "2", "3", "4", "5", "6", "7", "8", "9">>

RECURSIVE Pow10(_)
\* Math.pow(10, n) for a natural n
Pow10(n) == IF n = 0 THEN 1 ELSE 10 * Pow10(n - 1)

RECURSIVE NatToString(_)
\* Number.prototype.toString of a non-negative integer
NatToString(n) ==
  IF n < 10 THEN <<DigitChars[n + 1]>>
  ELSE NatToString(n \div 10) \o <<DigitChars[(n % 10) + 1]>>

RECURSIVE Repeat(_, _)
\* String.prototype.repeat of a one-character string
Repeat(ch, n) == IF n <= 0 THEN <<>> ELSE <<ch>> \o Repeat(ch, n - 1)

\* String.prototype.padStart(len, ch)
PadStart(s, len, ch) == Repeat(ch, len - Len(s)) \o s

\* String.prototype.endsWith('0')
EndsWithZero(s) == Len(s) > 0 /\ s[Len(s)] = "0"

RECURSIVE TrimZeros(_, _)
\* while (s.length > min && s.endsWith('0')) s = s.slice(0, -1)
TrimZeros(s, min) ==
  IF Len(s) > min /\ EndsWithZero(s) THEN TrimZeros(SubSeq(s, 1, Len(s) - 1), min)
  ELSE s

\* value of a digit character, -1 for any other character
DigitValue(ch) ==
  IF \E i \in 1..10 : DigitChars[i] = ch
  THEN (CHOOSE i \in 1..10 : DigitChars[i] = ch) - 1
  ELSE -1

RECURSIVE DigitsToNat(_)
DigitsToNat(s) ==
  IF Len(s) = 0 THEN 0
  ELSE 10 * DigitsToNat(SubSeq(s, 1, Len(s) - 1)) + DigitValue(s[Len(s)])

\* String.prototype.indexOf of a character, 0-based, -1 when absent
IndexOf(s, ch) ==
  IF \E i \in 1..Len(s) : s[i] = ch
  THEN (CHOOSE i \in 1..Len(s) : s[i] = ch /\ \A j \in 1..(i - 1) : s[j] # ch) - 1
  ELSE -1

\* String.prototype.lastIndexOf of a character, 0-based, -1 when absent
LastIndexOf(s, ch) ==
  IF \E i \in 1..Len(s) : s[i] = ch
  THEN (CHOOSE i \in 1..Len(s) : s[i] = ch /\ \A j \in (i + 1)..Len(s) : s[j] # ch) - 1
  ELSE -1

\* String.prototype.substring(from, to), 0-based, to exclusive
Substring(s, from, to) == SubSeq(s, from + 1, to)

(* ------------------------------------------------------------------ *)
(* Reals: c / 10^d + p * 1e-10 + e ulp, ordered lexicographically      *)
(* ------------------------------------------------------------------ *)

Real(c, d) == [c |-> c, d |-> d, p |-> 0, e |-> 0]

RHalf == Real(5, 1)

\* the tolerance 0.0000000001 of round
REps == [c |-> 0, d |-> 0, p |-> 1, e |-> 0]

Max(a, b) == IF a >= b THEN a ELSE b

\* numerator of x over the denominator 10^d, d >= x.d
Lift(x, d) == x.c * Pow10(d - x.d)

RAdd(x, y) ==
  [c |-> Lift(x, Max(x.d, y.d)) + Lift(y, Max(x.d, y.d)), d |-> Max(x.d, y.d),
   p |-> x.p + y.p, e |-> x.e + y.e]

RNeg(x) == [c |-> -x.c, d |-> x.d, p |-> -x.p, e |-> -x.e]

RSub(x, y) == RAdd(x, RNeg(y))

RSign(x) ==
  IF x.c # 0 THEN (IF x.c > 0 THEN 1 ELSE -1)
  ELSE IF x.p # 0 THEN (IF x.p > 0 THEN 1 ELSE -1)
  ELSE IF x.e # 0 THEN (IF x.e > 0 THEN 1 ELSE -1)
  ELSE 0

RLt(x, y) == RSign(RSub(x, y)) < 0

RGt(x, y) == RSign(RSub(x, y)) > 0

RAbs(x) == IF RSign(x) < 0 THEN RNeg(x) ELSE x

\* Math.floor, as an integer
RFloor(x) ==
  IF x.c % Pow10(x.d) = 0 /\ (x.p < 0 \/ (x.p = 0 /\ x.e < 0))
  THEN (x.c \div Pow10(x.d)) - 1
  ELSE x.c \div Pow10(x.d)

\* Math.ceil, as an integer
RCeil(x) == -RFloor(RNeg(x))

\* Math.round: floor(x + 0.5), a tie goes toward +Infinity
RRound(x) == RFloor(RAdd(x, RHalf))

(* ------------------------------------------------------------------ *)
(* JavaScript numbers                                                  *)
(* ------------------------------------------------------------------ *)

Num(neg, c, d) == [kind |-> "finite", neg |-> neg, c |-> c, d |-> d, e |-> 0]

NaN == [kind |-> "NaN", neg |-> FALSE, c |-> 0, d |-> 0, e |-> 0]

PosInfinity == [kind |-> "Infinity", neg |-> FALSE, c |-> 0, d |-> 0, e |-> 0]

NegInfinity == [kind |-> "Infinity", neg |-> TRUE, c |-> 0, d |-> 0, e |-> 0]

\* the outcome of a number-valued function that throws
Raised == [kind |-> "throw", neg |-> FALSE, c |-> 0, d |-> 0, e |-> 0]

\* the signed real a finite number denotes
AsReal(x) ==
  IF x.neg THEN [c |-> -x.c, d |-> x.d, p |-> 0, e |-> -x.e]
  ELSE [c |-> x.c, d |-> x.d, p |-> 0, e |-> x.e]

\* value < 0 (false for -0)
LtZero(x) == x.neg /\ x.c # 0

\* Math.abs
MathAbs(x) == [x EXCEPT !.neg = FALSE]

\* value >= 0 ? 1 : -1
Sign(value) == IF LtZero(value) THEN -1 ELSE 1

\* Math.abs of an integer
Magnitude(n) == IF n < 0 THEN -n ELSE n

\* sign * x for sign in {1, -1}
SignTimes(sign, x) == IF sign < 0 THEN [x EXCEPT !.neg = ~x.neg] ELSE x

\* an integer n as a number (n may be negative)
FromInt(n) == IF n < 0 THEN Num(TRUE, -n, 0) ELSE Num(FALSE, n, 0)

RECURSIVE Normal(_, _)
\* the decimal c / 10^d without trailing zeros, as <<c, d>>
Normal(c, d) == IF d > 0 /\ c % 10 = 0 THEN Normal(c \div 10, d - 1) ELSE <<c, d>>

(* ------------------------------------------------------------------ *)
(* Floating-point products                                             *)
(* ------------------------------------------------------------------ *)

\* <<c, d, e, a>>: the IEEE-754 product x * a, for the double x that stands
\* below (e = -1), at (e = 0) or above (e = 1) the double nearest to
\* c / 10^d and the integer a, lies above the double nearest to the decimal
\* product c * a / 10^d.  The products of the numbers the specifications
\* below give to format, by the multipliers and the factors 10, 100, 1000;
\* every other product of theirs is the nearest double.
UlpAbove ==
  { <<11, 4, 0, 10>>, <<22, 4, 0, 10>>, <<27, 4, 0, 10>>, <<35, 4, 0, 100>>,
    <<7, 3, 0, 100>>, <<14, 3, 0, 100>>, <<145, 4, 0, 10>>, <<145, 4, 0, 100>>,
    <<17, 3, 0, 100>>, <<21, 3, 0, 10>>, <<28, 3, 0, 100>>, <<285, 4, 0, 10>>,
    <<29, 3, 0, 10>>, <<29, 3, 0, 100>>, <<35, 3, 0, 10>>, <<35, 3, 0, 100>>,
    <<7, 2, 0, 10>>, <<7, 2, 0, 100>>, <<1005, 4, 0, 10>>, <<14, 2, 0, 10>>,
    <<14, 2, 0, 100>>, <<28, 2, 0, 100>>, <<7, 1, 1, 10>>, <<7, 1, 1, 1000>>,
    <<109, 2, 0, 100>>, <<11, 1, 0, 100>>, <<111, 2, 0, 100>>, <<112, 2, 0, 100>>,
    <<1245, 3, 0, 10>>, <<1245, 3, 0, 100>>, <<14, 1, 1, 10>>, <<14, 1, 1, 1000>>,
    <<17, 1, 1, 100>>, <<17, 1, 1, 1000>>, <<2007, 3, 0, 100>>, <<2007, 3, 0, 1000>>,
    <<22, 1, 0, 100>>, <<222, 2, 0, 100>>, <<249, 2, 0, 100>>, <<35, 1, 1, 10>>,
    <<35, 1, 1, 100>>, <<35, 1, 1, 1000>>, <<4001, 3, 0, 1000>>, <<7, 0, 1, 10>>,
    <<7, 0, 1, 100>>, <<7, 0, 1, 1000>>, <<8002, 3, 0, 1000>>, <<9999, 3, 0, 10>>,
    <<9999, 3, 0, 100>>, <<7001, 2, 0, 100>>, <<1245, 1, 1, 10>>, <<1245, 1, 1, 100>>,
    <<1245, 1, 1, 1000>>, <<15002, 2, 0, 100>>, <<9999, 1, 1, 100>>,
    <<9999, 1, 1, 1000>> }

\* the same, below the nearest double
UlpBelow ==
  { <<3, 4, 0, 10>>, <<6, 4, 0, 10>>, <<7, 4, 0, 100>>, <<12, 4, 0, 10>>,
    <<14, 4, 0, 100>>, <<17, 4, 0, 10>>, <<17, 4, 0, 100>>, <<21, 4, 0, 10>>,
    <<23, 4, 0, 100>>, <<24, 4, 0, 10>>, <<28, 4, 0, 100>>, <<29, 4, 0, 10>>,
    <<9, 3, 0, 100>>, <<11, 3, 0, 10>>, <<11, 3, 0, 100>>, <<18, 3, 0, 100>>,
    <<22, 3, 0, 10>>, <<22, 3, 0, 100>>, <<23, 3, 0, 10>>, <<145, 3, 0, 100>>,
    <<2007, 4, 0, 10>>, <<285, 3, 0, 10>>, <<285, 3, 0, 100>>, <<29, 2, 0, 100>>,
    <<1001, 3, 0, 10>>, <<1001, 3, 0, 1000>>, <<1003, 3, 0, 1000>>, <<1005, 3, 0, 10>>,
    <<1005, 3, 0, 100>>, <<1005, 3, 0, 1000>>, <<1007, 3, 0, 1000>>, <<11, 1, -1, 10>>,
    <<11, 1, -1, 100>>, <<11, 1, -1, 1000>>, <<12345, 4, 0, 10>>, <<12345, 4, 0, 100>>,
    <<1245, 3, -1, 100>>, <<1245, 3, -1, 1000>>, <<13, 1, -1, 10>>, <<13, 1, -1, 100>>,
    <<13, 1, -1, 1000>>, <<145, 2, -1, 10>>, <<145, 2, -1, 100>>, <<145, 2, -1, 1000>>,
    <<15, 1, -1, 10>>, <<15, 1, -1, 100>>, <<15, 1, -1, 1000>>, <<16, 1, -1, 10>>,
    <<16, 1, -1, 1000>>, <<18, 1, -1, 100>>, <<18, 1, -1, 1000>>, <<2002, 3, 0, 1000>>,
    <<2006, 3, 0, 1000>>, <<2007, 3, -1, 10>>, <<2007, 3, -1, 100>>,
    <<2007, 3, -1, 1000>>, <<201, 2, 0, 100>>, <<21, 1, -1, 10>>, <<21, 1, -1, 100>>,
    <<21, 1, -1, 1000>>, <<22, 1, -1, 10>>, <<22, 1, -1, 100>>, <<22, 1, -1, 1000>>,
    <<23, 1, 0, 100>>, <<232, 2, 0, 100>>, <<251, 2, 0, 100>>, <<26, 1, -1, 10>>,
    <<26, 1, -1, 100>>, <<26, 1, -1, 1000>>, <<27, 1, -1, 10>>, <<27, 1, -1, 1000>>,
    <<285, 2, -1, 10>>, <<285, 2, -1, 100>>, <<285, 2, -1, 1000>>, <<29, 1, -1, 10>>,
    <<29, 1, -1, 100>>, <<29, 1, -1, 1000>>, <<3, 0, -1, 10>>, <<3, 0, -1, 100>>,
    <<3, 0, -1, 1000>>, <<31, 1, -1, 10>>, <<31, 1, -1, 100>>, <<31, 1, -1, 1000>>,
    <<35, 1, -1, 10>>, <<35, 1, -1, 100>>, <<35, 1, -1, 1000>>, <<402, 2, 0, 100>>,
    <<502, 2, 0, 100>>, <<6, 0, -1, 10>>, <<6, 0, -1, 100>>, <<6, 0, -1, 1000>>,
    <<8001, 3, 0, 1000>>, <<9999, 3, -1, 10>>, <<9999, 3, -1, 100>>,
    <<9999, 3, -1, 1000>>, <<6999, 2, 0, 100>> }

\* <<c, d, e>>: the IEEE-754 quotient x / Math.pow(10, Math.floor(Math.log10(x)))
\* of the double x at c / 10^d (e as above) lies above the double nearest to
\* the decimal quotient
QuotientAbove ==
  { <<17, 3, 0>>, <<35, 3, 0>>, <<7, 2, 0>>, <<14, 2, 0>>, <<7, 0, 1>> }

\* the same, below the nearest double
QuotientBelow ==
  { <<3, 4, 0>>, <<6, 4, 0>>, <<13, 4, 0>>, <<18, 4, 0>>, <<21, 4, 0>>, <<26, 4, 0>>,
    <<31, 4, 0>>, <<11, 3, 0>>, <<13, 3, 0>>, <<18, 3, 0>>, <<22, 3, 0>>, <<26, 3, 0>>,
    <<27, 3, 0>>, <<1245, 4, 0>>, <<145, 3, 0>>, <<15, 2, 0>>, <<16, 2, 0>>,
    <<2007, 4, 0>>, <<285, 3, 0>>, <<29, 2, 0>>, <<35, 2, 0>>, <<6, 1, 0>>,
    <<9999, 4, 0>>, <<1245, 2, 0>>, <<9999, 2, 0>> }

\* offset of the product of the double at the decimal k = <<c, d>> (e as
\* above) by a from the double nearest to the decimal product
ProductUlp(k, e, a) ==
  IF <<k[1], k[2], e, a>> \in UlpAbove THEN 1
  ELSE IF <<k[1], k[2], e, a>> \in UlpBelow THEN -1
  ELSE 0

\* offset of the product x * a from the double nearest to the decimal product
MulUlp(x, a) == ProductUlp(Normal(x.c, x.d), x.e, a)

\* x * a for a finite number x and an integer a
Times(x, a) ==
  IF a = 1 THEN x
  ELSE [kind |-> "finite", neg |-> (x.neg # (a < 0)), c |-> x.c * Magnitude(a), d |-> x.d,
        e |-> IF x.c = 0 \/ a = 0 THEN 0 ELSE MulUlp(x, Magnitude(a))]

\* n / Math.pow(10, scale) for a non-negative integer n: the quotient of two
\* exactly represented integers is the double nearest to the decimal
Over(n, scale) == Num(FALSE, n, scale)

(* ------------------------------------------------------------------ *)
(* Number.prototype.toFixed and parseFloat                             *)
(* ------------------------------------------------------------------ *)

\* the integer n for which n / 10^f - x is closest to zero, the larger n
\* when there are two (x finite, x >= 0)
ToFixedInt(x, f) ==
  RRound([c |-> x.c * Pow10(f), d |-> x.d, p |-> 0, e |-> x.e])

\* the digits m with a '.' before the last f of them
PointBefore(m, f) ==
  IF f = 0 THEN m
  ELSE SubSeq(m, 1, Len(m) - f) \o <<".">> \o SubSeq(m, Len(m) - f + 1, Len(m))

\* n / 10^f in decimal notation with f fraction digits
FixedDigits(n, f) == PointBefore(PadStart(NatToString(n), f + 1, "0"), f)

\* x.toFixed(f)
ToFixed(x, f) ==
  (IF LtZero(x) THEN <<"-">> ELSE <<>>) \o FixedDigits(ToFixedInt(MathAbs(x), f), f)

RECURSIVE DigitRun(_)
\* length of the longest prefix of s made of digit characters
DigitRun(s) ==
  IF Len(s) = 0 \/ DigitValue(s[1]) < 0 THEN 0 ELSE 1 + DigitRun(Tail(s))

\* the number of the integer digits int and the fraction digits frac
ParseParts(neg, int, frac) ==
  IF Len(int) + Len(frac) = 0 THEN NaN
  ELSE Num(neg, DigitsToNat(int \o frac), Len(frac))

\* the integer digits int followed by rest: a '.' and digits belong to the number
ParseFraction(neg, int, rest) ==
  ParseParts(neg, int,
             IF Len(rest) > 0 /\ rest[1] = "." THEN SubSeq(rest, 2, DigitRun(Tail(rest)) + 1)
             ELSE <<>>)

\* body after its sign, ni its leading digits
ParseDigits(neg, body, ni) ==
  ParseFraction(neg, SubSeq(body, 1, ni), SubSeq(body, ni + 1, Len(body)))

\* parseFloat(s) for the decimal literals [+-]digits[.digits] (the longest
\* such prefix of s); any other text is NaN
ParseFloat(s) ==
  IF Len(s) > 0 /\ s[1] \in {"-", "+"}
  THEN ParseDigits(s[1] = "-", Tail(s), DigitRun(Tail(s)))
  ELSE ParseDigits(FALSE, s, DigitRun(s))

(* ------------------------------------------------------------------ *)
(* Rounding                                                            *)
(* ------------------------------------------------------------------ *)

RoundingModes ==
  {"UP", "DOWN", "CEILING", "FLOOR", "HALF_UP", "HALF_DOWN", "HALF_EVEN", "UNNECESSARY"}

\* roundInteger, HALF_DOWN, on the real a = absValue
IntHalfDown(a) ==
  IF RFloor(RAdd(a, RHalf)) = RCeil(RSub(a, RHalf)) THEN RFloor(a) ELSE RRound(a)

\* s - floored
Fraction(s, floored) == RSub(s, Real(floored, 0))

\* fraction > 0.5: floored + 1; fraction < 0.5: floored; else the even one
TieToEven(floored, fraction) ==
  IF RGt(fraction, RHalf) THEN floored + 1
  ELSE IF RLt(fraction, RHalf) THEN floored
  ELSE IF floored % 2 = 0 THEN floored ELSE floored + 1

\* the same with the tolerance 1e-10 on either side of 0.5
TieToEvenWithin(floored, fraction) ==
  IF RGt(fraction, RAdd(RHalf, REps)) THEN floored + 1
  ELSE IF RLt(fraction, RSub(RHalf, REps)) THEN floored
  ELSE IF floored % 2 = 0 THEN floored ELSE floored + 1

\* fraction > 0.5 ? floored + 1 : floored
AboveHalf(floored, fraction) == IF RGt(fraction, RHalf) THEN floored + 1 ELSE floored

\* roundInteger, HALF_EVEN, on the real a = absValue
IntHalfEven(a) == TieToEven(RFloor(a), Fraction(a, RFloor(a)))

\* the switch of roundInteger: a = absValue and v = value as reals
RoundedInteger(mode, value, sign, a, v) ==
  CASE mode = "UP" -> SignTimes(sign, FromInt(RCeil(a)))
    [] mode = "DOWN" -> SignTimes(sign, FromInt(RFloor(a)))
    [] mode = "CEILING" ->
         IF value.neg THEN Num(TRUE, -RCeil(v), 0) ELSE FromInt(RCeil(v))
    [] mode = "FLOOR" ->
         IF value.neg THEN Num(TRUE, -RFloor(v), 0) ELSE FromInt(RFloor(v))
    [] mode = "HALF_UP" -> SignTimes(sign, FromInt(RRound(a)))
    [] mode = "HALF_DOWN" -> SignTimes(sign, FromInt(IntHalfDown(a)))
    [] mode = "HALF_EVEN" -> SignTimes(sign, FromInt(IntHalfEven(a)))
    [] mode = "UNNECESSARY" ->
         IF RSign(RSub(v, Real(RFloor(v), 0))) # 0 THEN Raised ELSE value
    [] OTHER -> Raised

\* roundInteger(value) under the rounding mode
roundInteger(mode, value) ==
  RoundedInteger(mode, value, Sign(value), AsReal(MathAbs(value)), AsReal(value))

\* a defective variant of ScaledHalfUp: Math.round(scaled), the tolerance left out
ScaledHalfUpNoTolerance(s) == RRound(s)

\* the HALF_UP case of round: Math.round(scaled + 1e-10)
ScaledHalfUp(s) == RRound(RAdd(s, REps))

\* the HALF_DOWN case of round
ScaledHalfDown(s) == AboveHalf(RFloor(s), Fraction(s, RFloor(s)))

\* a defective variant of ScaledHalfEven: the fraction compared with 0.5 itself
ScaledHalfEvenNoTolerance(s) == TieToEven(RFloor(s), Fraction(s, RFloor(s)))

\* the HALF_EVEN case of round, with its tolerance around 0.5
ScaledHalfEven(s) == TieToEvenWithin(RFloor(s), Fraction(s, RFloor(s)))

\* the UNNECESSARY case of round, -1 when it throws
ScaledExact(s) ==
  IF RGt(RAbs(RSub(s, Real(RRound(s), 0))), REps) THEN -1 ELSE RRound(s)

\* the switch of round: roundedScaled, or -1 when it throws
RoundedScaled(mode, sign, s) ==
  CASE mode = "UP" -> RCeil(s)
    [] mode = "DOWN" -> RFloor(s)
    [] mode = "CEILING" -> IF sign > 0 THEN RCeil(s) ELSE RFloor(s)
    [] mode = "FLOOR" -> IF sign > 0 THEN RFloor(s) ELSE RCeil(s)
    [] mode = "HALF_UP" -> ScaledHalfUp(s)
    [] mode = "HALF_DOWN" -> ScaledHalfDown(s)
    [] mode = "HALF_EVEN" -> ScaledHalfEven(s)
    [] mode = "UNNECESSARY" -> ScaledExact(s)
    [] OTHER -> -1

\* sign * parseFloat((roundedScaled / factor).toFixed(scale))
ScaledBack(sign, roundedScaled, scale) ==
  IF roundedScaled < 0 THEN Raised
  ELSE SignTimes(sign, ParseFloat(ToFixed(Over(roundedScaled, scale), scale)))

\* round(value, scale) under the rounding mode
round(mode, value, scale) ==
  IF scale = 0 THEN roundInteger(mode, value)
  ELSE ScaledBack(Sign(value),
                  RoundedScaled(mode, Sign(value),
                                AsReal(Times(MathAbs(value), Pow10(scale)))),
                  scale)

(* ------------------------------------------------------------------ *)
(* The number renderer                                                 *)
(* ------------------------------------------------------------------ *)

\* what a string-valued call gives back: a string, or an Error thrown
Returned(s) == [threw |-> FALSE, str |-> s, msg |-> ""]

Thrown(msg) == [threw |-> TRUE, str |-> <<>>, msg |-> msg]

RECURSIVE applyGroupingFromLeft(_, _)
\* a defective variant of applyGrouping: the groups counted from the left
applyGroupingFromLeft(integerStr, groupSize) ==
  IF Len(integerStr) <= groupSize THEN integerStr
  ELSE SubSeq(integerStr, 1, groupSize) \o <<",">>
       \o applyGroupingFromLeft(SubSeq(integerStr, groupSize + 1, Len(integerStr)),
                                groupSize)

RECURSIVE applyGrouping(_, _)
\* a ',' after every digit that has a positive multiple of groupSize digits
\* to its right
applyGrouping(integerStr, groupSize) ==
  IF Len(integerStr) = 0 THEN <<>>
  ELSE <<Head(integerStr)>>
       \o (IF Len(integerStr) > 1 /\ (Len(integerStr) - 1) % groupSize = 0
           THEN <<",">> ELSE <<>>)
       \o applyGrouping(Tail(integerStr), groupSize)

\* a defective variant of Padded: a lone '0' kept when minIntegerDigits is 0
PaddedKeepingZero(pp, integerPart) ==
  IF Len(integerPart) < pp.minIntegerDigits
  THEN Repeat("0", pp.minIntegerDigits - Len(integerPart)) \o integerPart
  ELSE integerPart

\* the integer part under minIntegerDigits
Padded(pp, integerPart) ==
  IF pp.minIntegerDigits = 0 /\ integerPart = <<"0">> THEN <<>>
  ELSE IF Len(integerPart) < pp.minIntegerDigits
  THEN Repeat("0", pp.minIntegerDigits - Len(integerPart)) \o integerPart
  ELSE integerPart

\* the integer part with its grouping separators
Grouped(pp, integerPart) ==
  IF pp.groupingUsed /\ pp.groupingSize > 0
  THEN applyGrouping(integerPart, pp.groupingSize)
  ELSE integerPart

\* integer part, '.', fraction part
JoinParts(pp, integerPart, fractionPart) ==
  IF Len(fractionPart) > 0 \/ pp.decimalSeparatorAlwaysShown
  THEN integerPart \o <<".">> \o fractionPart
  ELSE integerPart

\* the digits of scaled = Math.round(absRounded * factor)
ScaledDigits(pp, scaled, factor) ==
  JoinParts(pp,
            Grouped(pp, Padded(pp, NatToString(scaled \div factor))),
            TrimZeros(PadStart(NatToString(scaled % factor), pp.maxFractionDigits, "0"),
                      pp.minFractionDigits))

\* formatStandard after the call of round: the digits of the rounded value
StandardDigits(pp, rounded) ==
  ScaledDigits(pp,
               RRound(AsReal(Times(MathAbs(rounded), Pow10(pp.maxFractionDigits)))),
               Pow10(pp.maxFractionDigits))

\* what formatStandard makes of the outcome of round
StandardResult(pp, rounded) ==
  IF rounded.kind = "throw" THEN Thrown("Rounding necessary")
  ELSE Returned(StandardDigits(pp, rounded))

\* formatStandard(value)
formatStandard(pp, mode, value) ==
  StandardResult(pp, round(mode, value, pp.maxFractionDigits))

\* Math.floor(Math.log10(value)) for a finite value > 0: the k with
\* 10^k <= c / 10^d < 10^(k+1)
Exponent(value) == Len(NatToString(value.c)) - 1 - value.d

\* offset of the quotient of the double at the decimal k = <<c, d>> from the
\* double nearest to the decimal quotient
QuotientUlpOf(k, e) ==
  IF <<k[1], k[2], e>> \in QuotientAbove THEN 1
  ELSE IF <<k[1], k[2], e>> \in QuotientBelow THEN -1
  ELSE 0

\* offset of the quotient value / Math.pow(10, exponent)
QuotientUlp(value) == QuotientUlpOf(Normal(value.c, value.d), value.e)

\* value / Math.pow(10, exponent)
Mantissa(value, exponent) ==
  [kind |-> "finite", neg |-> FALSE,
   c |-> IF exponent >= 0 THEN value.c ELSE value.c * Pow10(-exponent),
   d |-> IF exponent >= 0 THEN value.d + exponent ELSE value.d,
   e |-> QuotientUlp(value)]

\* intPart, and '.' + fracPart when fracPart is not empty
JoinMantissa(intPart, fracPart) ==
  intPart \o (IF Len(fracPart) > 0 THEN <<".">> \o fracPart ELSE <<>>)

\* mantissaStr split at its '.', trailing zeros of the fraction removed
MantissaParts(pp, mantissaStr, dot) ==
  IF dot < 0 THEN mantissaStr
  ELSE JoinMantissa(Substring(mantissaStr, 0, dot),
                    TrimZeros(Substring(mantissaStr, dot + 1, Len(mantissaStr)),
                              pp.minFractionDigits))

\* 'E', the sign of a negative exponent, the exponent digits
ExponentDigits(pp, exponent) ==
  <<"E">> \o (IF exponent >= 0 THEN <<>> ELSE <<"-">>)
        \o PadStart(NatToString(Magnitude(exponent)), pp.minExponentDigits, "0")

\* what formatExponential makes of the outcome of round
ExponentialResult(pp, exponent, rounded) ==
  IF rounded.kind = "throw" THEN Thrown("Rounding necessary")
  ELSE Returned(MantissaParts(pp, ToFixed(rounded, pp.maxFractionDigits),
                              IndexOf(ToFixed(rounded, pp.maxFractionDigits), "."))
                \o ExponentDigits(pp, exponent))

\* formatExponential(value), value = Math.abs of the scaled number
formatExponential(pp, mode, value) ==
  IF value.c = 0
  THEN Returned(Repeat("0", pp.minIntegerDigits)
                \o (IF pp.maxFractionDigits > 0 THEN <<".">> ELSE <<>>)
                \o <<"E">> \o Repeat("0", pp.minExponentDigits))
  ELSE ExponentialResult(pp, Exponent(value),
                         round(mode, Mantissa(value, Exponent(value)),
                               pp.maxFractionDigits))

\* a defective variant of IsNegative: the sign bit, which -0 carries
IsNegativeSignBit(value) == value.neg

\* value < 0 && value !== 0
IsNegative(value) == LtZero(value) /\ value.c # 0

\* prefix + formatted + suffix, by the sign
Affixed(pp, isNegative, formatted) ==
  IF formatted.threw THEN formatted
  ELSE Returned((IF isNegative THEN pp.negativePrefix ELSE pp.positivePrefix)
                \o formatted.str
                \o (IF isNegative THEN pp.negativeSuffix ELSE pp.positiveSuffix))

\* prefix + formatted + suffix, by the sign of what was rendered: negative
\* only with a digit other than '0'
AffixedByResult(pp, isNegative, formatted) ==
  Affixed(pp,
          isNegative /\ \E k \in 1..Len(formatted.str) : DigitValue(formatted.str[k]) >= 1,
          formatted)

\* a defective variant of Rendered: the sign taken after rounding
RenderedBySignOfResult(pp, mode, value) ==
  AffixedByResult(pp, IsNegative(value),
                  IF pp.useExponentialNotation
                  THEN formatExponential(pp, mode, MathAbs(value))
                  ELSE formatStandard(pp, mode, value))

\* format from line 58 on: value = num * multiplier
Rendered(pp, mode, value) ==
  Affixed(pp, IsNegative(value),
          IF pp.useExponentialNotation
          THEN formatExponential(pp, mode, MathAbs(value))
          ELSE formatStandard(pp, mode, value))

\* a defective variant of format: the infinity glyph between the prefix and
\* the suffix of its sign
formatAffixingInfinity(pp, mode, num) ==
  IF num.kind = "NaN" THEN Thrown("Cannot format NaN")
  ELSE IF num.kind = "Infinity"
  THEN Affixed(pp, num.neg, Returned(<<InfinityGlyph>>))
  ELSE Rendered(pp, mode, Times(num, pp.multiplier))

\* format(number) for a number, on the rule set pp and the rounding mode
format(pp, mode, num) ==
  IF num.kind = "NaN" THEN Thrown("Cannot format NaN")
  ELSE IF num.kind = "Infinity"
  THEN Returned(IF ~num.neg THEN <<InfinityGlyph>> ELSE <<"-", InfinityGlyph>>)
  ELSE Rendered(pp, mode, Times(num, pp.multiplier))

(* ------------------------------------------------------------------ *)
(* The pattern compiler                                                *)
(* ------------------------------------------------------------------ *)

\* Number.MAX_SAFE_INTEGER (2^53 - 1), held as the largest integer of the
\* model checker: no digit count of the model comes near either
MAX_SAFE_INTEGER == 2147483647

RECURSIVE FindSemicolonFrom(_, _, _)
FindSemicolonFrom(pattern, i, inQuote) ==
  IF i > Len(pattern) THEN -1
  ELSE IF pattern[i] = "'" THEN FindSemicolonFrom(pattern, i + 1, ~inQuote)
  ELSE IF pattern[i] = ";" /\ ~inQuote THEN i - 1
  ELSE FindSemicolonFrom(pattern, i + 1, inQuote)

\* 0-based index of the first ';' outside quotes, -1 when there is none
findUnquotedSemicolon(pattern) == FindSemicolonFrom(pattern, 1, FALSE)

\* the scanner of parseSubpattern before the first character
ScanInit ==
  [state |-> "prefix", inQuote |-> FALSE, prefix |-> <<>>, suffix |-> <<>>,
   numberPart |-> <<>>, useExponentialNotation |-> FALSE,
   minExponentDigits |-> 0, multiplier |-> 1]

NumberChars == {"0", "#", ",", "."}

\* a defective variant of UnquotedStep: a number character met in the
\* suffix goes to the number part again
UnquotedStepReentering(sc, ch, state) ==
  CASE state = "prefix" ->
         [sc EXCEPT !.prefix = @ \o <<ch>>,
                    !.multiplier = IF ch = "%" THEN 100
                                   ELSE IF ch = Permille THEN 1000 ELSE @]
    [] state = "number" ->
         IF ch \in NumberChars
         THEN [sc EXCEPT !.state = state, !.numberPart = @ \o <<ch>>]
         ELSE IF ch \in {"E", "e"}
         THEN [sc EXCEPT !.state = "exponent", !.useExponentialNotation = TRUE]
         ELSE [sc EXCEPT !.state = "suffix", !.suffix = @ \o <<ch>>,
                         !.multiplier = IF ch = "%" THEN 100
                                        ELSE IF ch = Permille THEN 1000 ELSE @]
    [] state = "exponent" ->
         IF ch = "0" THEN [sc EXCEPT !.minExponentDigits = @ + 1]
         ELSE [sc EXCEPT !.state = "suffix", !.suffix = @ \o <<ch>>]
    [] OTHER ->
         IF ch \in NumberChars
         THEN [sc EXCEPT !.state = "number", !.numberPart = @ \o <<ch>>]
         ELSE [sc EXCEPT !.suffix = @ \o <<ch>>]

\* one turn of the while loop outside quotes; state is 'number' once a
\* pattern character ends the prefix
UnquotedStep(sc, ch, state) ==
  CASE state = "prefix" ->
         [sc EXCEPT !.prefix = @ \o <<ch>>,
                    !.multiplier = IF ch = "%" THEN 100
                                   ELSE IF ch = Permille THEN 1000 ELSE @]
    [] state = "number" ->
         IF ch \in NumberChars
         THEN [sc EXCEPT !.state = state, !.numberPart = @ \o <<ch>>]
         ELSE IF ch \in {"E", "e"}
         THEN [sc EXCEPT !.state = "exponent", !.useExponentialNotation = TRUE]
         ELSE [sc EXCEPT !.state = "suffix", !.suffix = @ \o <<ch>>,
                         !.multiplier = IF ch = "%" THEN 100
                                        ELSE IF ch = Permille THEN 1000 ELSE @]
    [] state = "exponent" ->
         IF ch = "0" THEN [sc EXCEPT !.minExponentDigits = @ + 1]
         ELSE [sc EXCEPT !.state = "suffix", !.suffix = @ \o <<ch>>]
    [] OTHER -> [sc EXCEPT !.suffix = @ \o <<ch>>]

\* one turn of the while loop of parseSubpattern on the character ch
ScanStep(sc, ch) ==
  IF ch = "'" THEN [sc EXCEPT !.inQuote = ~sc.inQuote]
  ELSE IF sc.inQuote
  THEN IF sc.state = "prefix" THEN [sc EXCEPT !.prefix = @ \o <<ch>>]
       ELSE IF sc.state \in {"suffix", "exponent"} THEN [sc EXCEPT !.suffix = @ \o <<ch>>]
       ELSE sc
  ELSE UnquotedStep(sc, ch,
                    IF ch \in NumberChars /\ sc.state = "prefix" THEN "number"
                    ELSE sc.state)

RECURSIVE Scan(_, _)
\* the scanner after the whole of text
Scan(sc, text) == IF Len(text) = 0 THEN sc ELSE Scan(ScanStep(sc, Head(text)), Tail(text))

RECURSIVE Count(_, _)
\* number of occurrences of the character ch in s
Count(s, ch) ==
  IF Len(s) = 0 THEN 0 ELSE (IF Head(s) = ch THEN 1 ELSE 0) + Count(Tail(s), ch)

\* a defective variant of NoNumberPart: every digit count zero
NoNumberPartAllZero(sc) ==
  [prefix |-> sc.prefix,
   suffix |-> sc.suffix,
   minIntegerDigits |-> 0,
   maxIntegerDigits |-> 0,
   minFractionDigits |-> 0,
   maxFractionDigits |-> 0,
   groupingSize |-> 0,
   groupingUsed |-> FALSE,
   decimalSeparatorAlwaysShown |-> FALSE,
   useExponentialNotation |-> sc.useExponentialNotation,
   minExponentDigits |-> sc.minExponentDigits,
   multiplier |-> sc.multiplier]

\* the rules of a sub-pattern without number part: the initial values
NoNumberPart(sc) ==
  [prefix |-> sc.prefix,
   suffix |-> sc.suffix,
   minIntegerDigits |-> 1,
   maxIntegerDigits |-> MAX_SAFE_INTEGER,
   minFractionDigits |-> 0,
   maxFractionDigits |-> 0,
   groupingSize |-> 0,
   groupingUsed |-> FALSE,
   decimalSeparatorAlwaysShown |-> FALSE,
   useExponentialNotation |-> sc.useExponentialNotation,
   minExponentDigits |-> sc.minExponentDigits,
   multiplier |-> sc.multiplier]

\* a defective variant of NumberPart: maxIntegerDigits counts the '#' only
NumberPartHashOnly(sc, integerPart, fractionPart, hasDot, lastComma) ==
  [prefix |-> sc.prefix,
   suffix |-> sc.suffix,
   minIntegerDigits |-> Count(integerPart, "0"),
   maxIntegerDigits |-> Count(integerPart, "#"),
   minFractionDigits |-> Count(fractionPart, "0"),
   maxFractionDigits |-> Count(fractionPart, "0") + Count(fractionPart, "#"),
   groupingSize |-> IF lastComma >= 0 THEN Len(integerPart) - lastComma - 1 ELSE 0,
   groupingUsed |-> lastComma >= 0,
   decimalSeparatorAlwaysShown |-> hasDot /\ Len(fractionPart) = 0,
   useExponentialNotation |-> sc.useExponentialNotation,
   minExponentDigits |-> sc.minExponentDigits,
   multiplier |-> sc.multiplier]

\* the rules of a number part split at its '.'
NumberPart(sc, integerPart, fractionPart, hasDot, lastComma) ==
  [prefix |-> sc.prefix,
   suffix |-> sc.suffix,
   minIntegerDigits |-> Count(integerPart, "0"),
   maxIntegerDigits |-> Count(integerPart, "0") + Count(integerPart, "#"),
   minFractionDigits |-> Count(fractionPart, "0"),
   maxFractionDigits |-> Count(fractionPart, "0") + Count(fractionPart, "#"),
   groupingSize |-> IF lastComma >= 0 THEN Len(integerPart) - lastComma - 1 ELSE 0,
   groupingUsed |-> lastComma >= 0,
   decimalSeparatorAlwaysShown |-> hasDot /\ Len(fractionPart) = 0,
   useExponentialNotation |-> sc.useExponentialNotation,
   minExponentDigits |-> sc.minExponentDigits,
   multiplier |-> sc.multiplier]

\* the number part split at dotIndex
SplitNumberPart(sc, numberPart, dotIndex) ==
  IF dotIndex >= 0
  THEN NumberPart(sc, Substring(numberPart, 0, dotIndex),
                  Substring(numberPart, dotIndex + 1, Len(numberPart)), TRUE,
                  LastIndexOf(Substring(numberPart, 0, dotIndex), ","))
  ELSE NumberPart(sc, numberPart, <<>>, FALSE, LastIndexOf(numberPart, ","))

\* parseSubpattern after its scanner
Scanned(sc) ==
  IF Len(sc.numberPart) > 0
  THEN SplitNumberPart(sc, sc.numberPart, IndexOf(sc.numberPart, "."))
  ELSE NoNumberPart(sc)

\* parseSubpattern(subpattern)
parseSubpattern(subpattern) == Scanned(Scan(ScanInit, subpattern))

\* a defective variant of DerivedNegative: the sign between prefix and digits
DerivedNegativeSignInside(positive) ==
  [positive EXCEPT !.prefix = positive.prefix \o <<"-">>]

\* the negative sub-pattern derived from the positive one: '-' + prefix
DerivedNegative(positive) == [positive EXCEPT !.prefix = <<"-">> \o positive.prefix]

\* the ParsedPattern of the two sub-patterns' rules
Merged(positive, negative) ==
  [positivePrefix |-> positive.prefix,
   positiveSuffix |-> positive.suffix,
   negativePrefix |-> negative.prefix,
   negativeSuffix |-> negative.suffix,
   minIntegerDigits |-> positive.minIntegerDigits,
   maxIntegerDigits |-> positive.maxIntegerDigits,
   minFractionDigits |-> positive.minFractionDigits,
   maxFractionDigits |-> positive.maxFractionDigits,
   groupingSize |-> positive.groupingSize,
   groupingUsed |-> positive.groupingUsed,
   decimalSeparatorAlwaysShown |-> positive.decimalSeparatorAlwaysShown,
   useExponentialNotation |-> positive.useExponentialNotation,
   minExponentDigits |-> positive.minExponentDigits,
   multiplier |-> positive.multiplier]

\* the negative sub-pattern parsed when it is not empty, derived otherwise
WithNegative(positive, negativePattern) ==
  Merged(positive,
         IF Len(negativePattern) > 0 THEN parseSubpattern(negativePattern)
         ELSE DerivedNegative(positive))

\* the pattern split at semicolonIndex
SplitPattern(pattern, semicolonIndex) ==
  IF semicolonIndex >= 0
  THEN WithNegative(parseSubpattern(Substring(pattern, 0, semicolonIndex)),
                    Substring(pattern, semicolonIndex + 1, Len(pattern)))
  ELSE WithNegative(parseSubpattern(pattern), <<>>)

\* parsePattern(pattern)
parsePattern(pattern) == SplitPattern(pattern, findUnquotedSemicolon(pattern))

(* ------------------------------------------------------------------ *)
(* One DecimalFormat instance                                          *)
(* ------------------------------------------------------------------ *)

VARIABLES
  pattern,        \* this.pattern
  parsedPattern,  \* this.parsedPattern
  roundingMode,   \* this.roundingMode
  setterCalls,    \* rule setters called since the last compilation
  last,           \* the last call: its name, its argument, what it gave back
  scan            \* the call of parseSubpattern under way: its locals

vars == <<pattern, parsedPattern, roundingMode, setterCalls, last, scan>>

\* '#,##0.###', the initial value of the pattern field
DefaultPattern == <<"#", ",", "#", "#", "0", ".", "#", "#", "#">>

\* '$#,##0.00;($#,##0.00)'
AccountingPattern ==
  <<"$", "#", ",", "#", "#", "0", ".", "0", "0", ";",
    "(", "$", "#", ",", "#", "#", "0", ".", "0", "0", ")">>

\* pattern strings given to the constructor and to applyPattern
Patterns ==
  { DefaultPattern,
    <<>>,
    <<"0">>,
    <<"0", ".", "0">>,
    <<"0", ".", "0", "0">>,
    <<"#", "#", "#", ".", "#", "#">>,
    <<"$", "#", ",", "#", "#", "0", ".", "0", "0">>,
    <<"#", ",", "#", "#", "0", ".", "0", "0", "%">>,
    <<"#", ",", "#", "#", "0", Permille>>,
    AccountingPattern,
    <<"0", ".", "0", "0", "E", "0">>,
    <<"'", "#", "'", "0", ".", "#", "E", "0", "0">>,
    <<"0", ";">>,
    <<"0", ";", "0", "-">>,
    <<"%", "0">>,
    <<"0", " ", "%">>,
    <<"0", "E", "0", Permille>>,
    <<"#", ",", "#", "0">>,
    <<"#", ",", "#", "#", ",", "#", "0">>,
    <<"0", ",", "0", "0", "0", "0", ".", "0">>,
    <<"#", ",">>,
    <<"#", ".", "0", "0">>,
    <<"#">>,
    <<"'", ";", "'", "0">>,
    <<"0", "'", "x", "'">>,
    <<"0", " ", "'", "#", "'">>,
    <<"0", "E", "0", "'", "0", "'">> }

\* the patterns of the lifecycle specification
LifecyclePatterns ==
  { DefaultPattern, <<>>, <<"0", ".", "0", "0">>, AccountingPattern,
    <<"0", ".", "#", "E", "0">> }

\* the rounding modes given to setRoundingMode in the lifecycle specification
LifecycleModes == {"HALF_UP", "CEILING", "UNNECESSARY"}

\* patterns of the rounding specification: 0 to 3 fraction digits
RoundPatterns ==
  { <<"0">>, <<"0", ".", "0">>, <<"0", ".", "0", "0">>, <<"0", ".", "0", "0", "0">> }

\* magnitudes, in units of 10^-Prec, of the numbers given to format
Magnitudes == {0, 1, 70, 500, 1245, 1500, 2500, 9999, 1234500}

\* numbers given to format
Numbers ==
  {Num(neg, c, Prec) : neg \in BOOLEAN, c \in Magnitudes}
    \cup {NaN, PosInfinity, NegInfinity}

\* numbers given to format in the lifecycle specification
LifecycleNumbers ==
  {Num(TRUE, 0, Prec), Num(FALSE, 1245, Prec), Num(TRUE, 1500, Prec),
   NaN, PosInfinity, NegInfinity}

\* magnitudes beyond MaxMag of the rounding specification: ties and
\* neighbours of ties at scale 0 and 1, and products with a rounding error
TieMagnitudes ==
  {35, 70, 140, 145, 150, 250, 285, 290, 350, 400, 500, 600, 1000, 1001, 1005, 1245,
   1400, 1500, 1600, 2000, 2007, 2500}

\* numbers given to format in the rounding specification
RoundNumbers ==
  {Num(neg, c, Prec) : neg \in BOOLEAN, c \in (0..MaxMag) \cup TieMagnitudes}

\* strings given to format
Texts == { <<"1", ".", "5">>, <<"-", "2", ".", "5">>, <<"a", "b", "c">>, <<>> }

\* prefix and suffix texts given to the setters
Affixes == { <<"~">> }

\* multipliers given to setMultiplier
Multipliers == {1, 100}

NoNumber == NaN

\* the locals of parseSubpattern when it is called on subpattern: i, the
\* scanner, and the rules it returns, which start at their initial values
Scanning(subpattern) ==
  [subpattern |-> subpattern, i |-> 0, sc |-> ScanInit, returned |-> FALSE,
   rules |-> NoNumberPart(ScanInit)]

\* no call of parseSubpattern under way
NoScan == [Scanning(<<>>) EXCEPT !.returned = TRUE]

NoReturn == [threw |-> FALSE, str |-> <<>>, msg |-> "void"]

Call(op, text, num, int, flag, mode, ret) ==
  [op |-> op, text |-> text, num |-> num, int |-> int, flag |-> flag,
   mode |-> mode, ret |-> ret]

\* new DecimalFormat(pattern), and new DecimalFormat() when given is FALSE
Construct(given, p) ==
  /\ pattern = IF given /\ Len(p) > 0 THEN p ELSE DefaultPattern
  /\ parsedPattern = parsePattern(pattern)
  /\ roundingMode = "HALF_EVEN"
  /\ setterCalls = 0
  /\ last = Call("new", p, NoNumber, 0, given, "", NoReturn)

\* the products of format and round stay within the integers of the model
InRange(pp, num) ==
  \/ num.kind # "finite"
  \/ /\ pp.multiplier # 0
     /\ pp.maxFractionDigits \in 0..Prec
     /\ num.c <= (MAX_SAFE_INTEGER
                    \div (Magnitude(pp.multiplier) * Pow10(pp.maxFractionDigits)))

\* a defective variant of Format: the multiplier applied once and for all
FormatScalingInPlace(num) ==
  /\ InRange(parsedPattern, num)
  /\ last' = Call("format", <<>>, num, 0, FALSE, "", format(parsedPattern, roundingMode, num))
  /\ parsedPattern' = [parsedPattern EXCEPT !.multiplier = 1]
  /\ UNCHANGED <<pattern, roundingMode, setterCalls, scan>>

\* format(number) for a number
Format(num) ==
  /\ InRange(parsedPattern, num)
  /\ last' = Call("format", <<>>, num, 0, FALSE, "", format(parsedPattern, roundingMode, num))
  /\ UNCHANGED <<pattern, parsedPattern, roundingMode, setterCalls, scan>>

\* format(number) for a string: parseFloat first
FormatText(s) ==
  /\ InRange(parsedPattern, ParseFloat(s))
  /\ last' = Call("format", s, ParseFloat(s), 0, TRUE, "",
                  format(parsedPattern, roundingMode, ParseFloat(s)))
  /\ UNCHANGED <<pattern, parsedPattern, roundingMode, setterCalls, scan>>

\* a defective variant of ApplyPattern: the rounding mode back to its default
ApplyPatternResetting(p) ==
  /\ pattern' = p
  /\ parsedPattern' = parsePattern(p)
  /\ setterCalls' = 0
  /\ last' = Call("applyPattern", p, NoNumber, 0, FALSE, "", NoReturn)
  /\ roundingMode' = "HALF_EVEN"
  /\ UNCHANGED scan

\* applyPattern(pattern)
ApplyPattern(p) ==
  /\ pattern' = p
  /\ parsedPattern' = parsePattern(p)
  /\ setterCalls' = 0
  /\ last' = Call("applyPattern", p, NoNumber, 0, FALSE, "", NoReturn)
  /\ UNCHANGED <<roundingMode, scan>>

\* what toPattern() returns: this.pattern
toPattern == pattern

\* toPattern()
ToPattern ==
  /\ last' = Call("toPattern", <<>>, NoNumber, 0, FALSE, "", Returned(toPattern))
  /\ UNCHANGED <<pattern, parsedPattern, roundingMode, setterCalls, scan>>

\* setRoundingMode(mode)
SetRoundingMode(mode) ==
  /\ roundingMode' = mode
  /\ last' = Call("setRoundingMode", <<>>, NoNumber, 0, FALSE, mode, NoReturn)
  /\ UNCHANGED <<pattern, parsedPattern, setterCalls, scan>>

\* a defective variant of SetField: the negative prefix derived anew from a
\* positive prefix that is set
SetFieldRederiving(op, field, value, text, int, flag) ==
  /\ setterCalls < MaxSetterCalls
  /\ setterCalls' = setterCalls + 1
  /\ parsedPattern' =
       IF field = "positivePrefix"
       THEN [parsedPattern EXCEPT !.positivePrefix = value,
                                  !.negativePrefix = <<"-">> \o value]
       ELSE [parsedPattern EXCEPT ![field] = value]
  /\ last' = Call(op, text, NoNumber, int, flag, "", NoReturn)
  /\ UNCHANGED <<pattern, roundingMode, scan>>

\* a setter of one field of parsedPattern
SetField(op, field, value, text, int, flag) ==
  /\ setterCalls < MaxSetterCalls
  /\ setterCalls' = setterCalls + 1
  /\ parsedPattern' = [parsedPattern EXCEPT ![field] = value]
  /\ last' = Call(op, text, NoNumber, int, flag, "", NoReturn)
  /\ UNCHANGED <<pattern, roundingMode, scan>>

SetPositivePrefix(s) == SetField("setPositivePrefix", "positivePrefix", s, s, 0, FALSE)

SetNegativePrefix(s) == SetField("setNegativePrefix", "negativePrefix", s, s, 0, FALSE)

SetPositiveSuffix(s) == SetField("setPositiveSuffix", "positiveSuffix", s, s, 0, FALSE)

SetNegativeSuffix(s) == SetField("setNegativeSuffix", "negativeSuffix", s, s, 0, FALSE)

SetMinimumIntegerDigits(n) ==
  SetField("setMinimumIntegerDigits", "minIntegerDigits", n, <<>>, n, FALSE)

SetMaximumIntegerDigits(n) ==
  SetField("setMaximumIntegerDigits", "maxIntegerDigits", n, <<>>, n, FALSE)

SetMinimumFractionDigits(n) ==
  SetField("setMinimumFractionDigits", "minFractionDigits", n, <<>>, n, FALSE)

SetMaximumFractionDigits(n) ==
  SetField("setMaximumFractionDigits", "maxFractionDigits", n, <<>>, n, FALSE)

SetGroupingUsed(b) == SetField("setGroupingUsed", "groupingUsed", b, <<>>, 0, b)

SetGroupingSize(n) == SetField("setGroupingSize", "groupingSize", n, <<>>, n, FALSE)

SetMultiplier(n) == SetField("setMultiplier", "multiplier", n, <<>>, n, FALSE)

SetDecimalSeparatorAlwaysShown(b) ==
  SetField("setDecimalSeparatorAlwaysShown", "decimalSeparatorAlwaysShown", b, <<>>, 0, b)

\* the getter of one field of the rule set pp
GetField(pp, field) == pp[field]

(* The lifecycle of an instance: construction, applyPattern, the accessors *)
(* and format.                                                             *)

Init ==
  /\ \/ \E p \in LifecyclePatterns : Construct(TRUE, p)
     \/ Construct(FALSE, <<>>)
  /\ scan = NoScan

Next ==
  \/ \E p \in LifecyclePatterns : ApplyPattern(p)
  \/ ToPattern
  \/ \E m \in LifecycleModes : SetRoundingMode(m)
  \/ \E s \in Affixes : SetPositivePrefix(s)
  \/ \E s \in Affixes : SetNegativePrefix(s)
  \/ \E s \in Affixes : SetPositiveSuffix(s)
  \/ \E s \in Affixes : SetNegativeSuffix(s)
  \/ \E n \in 0..MaxDigits : SetMinimumIntegerDigits(n)
  \/ \E n \in 0..MaxDigits : SetMaximumIntegerDigits(n)
  \/ \E n \in 0..MaxDigits : SetMinimumFractionDigits(n)
  \/ \E n \in 0..MaxDigits : SetMaximumFractionDigits(n)
  \/ \E b \in BOOLEAN : SetGroupingUsed(b)
  \/ \E n \in 0..MaxDigits : SetGroupingSize(n)
  \/ \E n \in Multipliers : SetMultiplier(n)
  \/ \E b \in BOOLEAN : SetDecimalSeparatorAlwaysShown(b)
  \/ \E num \in LifecycleNumbers : Format(num)
  \/ FormatText(<<"a", "b", "c">>)

Spec == Init /\ [][Next]_vars

(* Compiled patterns: every pattern, every rounding mode, format on every  *)
(* number and text; no rule setter is called.                              *)

InitFormat ==
  /\ \E p \in Patterns : Construct(TRUE, p)
  /\ scan = NoScan

NextFormat ==
  \/ \E p \in Patterns : ApplyPattern(p)
  \/ \E m \in RoundingModes : SetRoundingMode(m)
  \/ \E num \in Numbers : Format(num)
  \/ \E s \in Texts : FormatText(s)

SpecFormat == InitFormat /\ [][NextFormat]_vars

RECURSIVE Strings(_, _)
\* the strings of at most n characters of alphabet
Strings(alphabet, n) ==
  IF n = 0 THEN {<<>>}
  ELSE {<<>>} \cup {<<ch>> \o s : ch \in alphabet, s \in Strings(alphabet, n - 1)}

\* characters of the sub-patterns given to parseSubpattern
PatternChars == {"0", "#", ",", ".", "E", "'", "%", "x"}

\* longer sub-patterns of the tests: '0.00E+0', '#,##0', '#,####0', and an
\* exponent with a quoted span
LongSubpatterns ==
  {<<"0", ".", "0", "0", "E", "+", "0">>,
   <<"#", ",", "#", "#", "0">>,
   <<"#", ",", "#", "#", "#", "#", "0">>,
   <<"0", "E", "0", "'", "x", "'", "0">>}

\* sub-patterns given to parseSubpattern
Subpatterns == Strings(PatternChars, MaxPatternLen) \cup LongSubpatterns

\* one turn of the while loop of parseSubpattern: the character at i
ScanChar ==
  /\ ~scan.returned
  /\ scan.i < Len(scan.subpattern)
  /\ scan' = [scan EXCEPT !.sc = ScanStep(scan.sc, scan.subpattern[scan.i + 1]),
                          !.i = scan.i + 1]
  /\ UNCHANGED <<pattern, parsedPattern, roundingMode, setterCalls, last>>

\* parseSubpattern after its loop: the number part parsed, the rules returned
ScanReturn ==
  /\ ~scan.returned
  /\ scan.i >= Len(scan.subpattern)
  /\ scan' = [scan EXCEPT !.returned = TRUE, !.rules = Scanned(scan.sc)]
  /\ UNCHANGED <<pattern, parsedPattern, roundingMode, setterCalls, last>>

(* The sub-pattern scanner, one character per step, over every string of   *)
(* pattern characters up to a length.                                      *)

InitScan ==
  /\ Construct(FALSE, <<>>)
  /\ \E subpattern \in Subpatterns : scan = Scanning(subpattern)

NextScan == ScanChar \/ ScanReturn

SpecScan == InitScan /\ [][NextScan]_vars

\* the loop and the return of parseSubpattern run on: nothing suspends them
SpecScanFair == SpecScan /\ WF_vars(NextScan)

(* The rounding modes over the decimals of a range, one pattern per scale. *)

InitRound ==
  /\ \E p \in RoundPatterns : Construct(TRUE, p)
  /\ scan = NoScan

NextRound ==
  \/ \E m \in RoundingModes : SetRoundingMode(m)
  \/ \E num \in RoundNumbers : Format(num)

SpecRound == InitRound /\ [][NextRound]_vars

(* ------------------------------------------------------------------ *)
(* Properties                                                          *)
(* ------------------------------------------------------------------ *)

\* the last call was format on a finite number
FormattedFinite == last.op = "format" /\ last.num.kind = "finite"

\* "-" followed by the string a call returned; a throw stays a throw
Negated(r) == IF r.threw THEN r ELSE Returned(<<"-">> \o r.str)

\* format(-v) was called, v > 0, on a pattern with no unquoted ';'
NegativeOnDerived ==
  FormattedFinite /\ LtZero(last.num) /\ findUnquotedSemicolon(pattern) = -1

\* the mode under which round(v) has the magnitude round(-v) has under mode:
\* formatStandard gives round the signed value and CEILING and FLOOR look at
\* the sign; formatExponential gives it the absolute value
Mirrored(pp, mode) ==
  IF pp.useExponentialNotation THEN mode
  ELSE CASE mode = "CEILING" -> "FLOOR"
         [] mode = "FLOOR" -> "CEILING"
         [] OTHER -> mode

\* C1, as stated: on a pattern with no unquoted ';' and under every rounding
\* mode, format(-v) = "-" + format(v) for every finite v > 0
C1_SignBeforeFormatted ==
  NegativeOnDerived =>
    last.ret = Negated(format(parsedPattern, roundingMode, MathAbs(last.num)))

\* C1, amended: on a pattern with no unquoted ';', format(-v) is "-" followed
\* by what format(v) returns, positive prefix first, under the same rounding
\* mode, except that in standard notation format(-v) under CEILING is "-"
\* followed by format(v) under FLOOR, and under FLOOR by format(v) under
\* CEILING; both calls throw together
C1_SignBeforeMirrored ==
  NegativeOnDerived =>
    last.ret = Negated(format(parsedPattern, Mirrored(parsedPattern, roundingMode),
                              MathAbs(last.num)))

\* C1, its case: -1.245 under CEILING on '$#,##0.00' gives "-$1.24"
C1_NegativeCeilingReached ==
  /\ NegativeOnDerived
  /\ roundingMode = "CEILING"
  /\ parsedPattern.positivePrefix = <<"$">>
  /\ last.num = Num(TRUE, 1245, Prec)
  /\ last.ret = Returned(<<"-", "$", "1", ".", "2", "4">>)

\* C2: applyPattern leaves the rounding mode as it was, so that a format call
\* right after it rounds by the mode held before it; a step that changes the
\* rounding mode is a call of setRoundingMode
C2_ApplyPatternKeepsRoundingMode ==
  [][/\ last'.op = "applyPattern" => roundingMode' = roundingMode
     /\ (last.op = "applyPattern" /\ last'.op = "format") =>
          last'.ret = format(parsedPattern', roundingMode, last'.num)
     /\ roundingMode' # roundingMode => last'.op = "setRoundingMode"]_vars

\* C2, its case: applyPattern was called while a rounding mode other than the
\* default was held
C2_AppliedUnderHalfUp ==
  /\ last.op = "applyPattern"
  /\ roundingMode = "HALF_UP"
  /\ pattern = <<"0", ".", "0", "0">>

\* C3, as stated: after new DecimalFormat(p) and after applyPattern(p),
\* toPattern() returns p, the empty string included
C3_ToPatternReturnsSupplied ==
  ((last.op = "new" /\ last.flag) \/ last.op = "applyPattern") => toPattern = last.text

\* the last call was format on a finite number in standard notation, under mode
RoundedUnder(mode) ==
  FormattedFinite /\ roundingMode = mode /\ ~parsedPattern.useExponentialNotation

\* the scale, and the number given to format as Quotient units of 10^-Scale
\* and Remainder out of Unit
Scale == parsedPattern.maxFractionDigits

Unit == Pow10(last.num.d - Scale)

Quotient == (last.num.c * parsedPattern.multiplier) \div Unit

Remainder == (last.num.c * parsedPattern.multiplier) % Unit

\* the multiple of 10^-Scale nearest to the magnitude, tie when it is halfway
Nearest(tie) ==
  IF 2 * Remainder < Unit THEN Quotient
  ELSE IF 2 * Remainder > Unit THEN Quotient + 1
  ELSE tie

\* the adjacent multiples toward zero and away from zero
TowardZero == Quotient

AwayFromZero == IF Remainder = 0 THEN Quotient ELSE Quotient + 1

\* n units of 10^-s in decimal notation
FixedPoint(n, s) ==
  IF s = 0 THEN NatToString(n)
  ELSE NatToString(n \div Pow10(s)) \o <<".">>
       \o PadStart(NatToString(n % Pow10(s)), s, "0")

Signed(str) == Len(str) > 0 /\ str[1] = "-"

Unsigned(str) == IF Signed(str) THEN Tail(str) ELSE str

\* format returned the magnitude n * 10^-Scale, with the sign of the number
\* given when n is not zero
Renders(n) ==
  /\ ~last.ret.threw
  /\ Unsigned(last.ret.str) = FixedPoint(n, Scale)
  /\ n # 0 => (Signed(last.ret.str) <=> last.num.neg)

\* C4, as stated: under HALF_DOWN, at every scale and for both signs, the
\* result is the nearest multiple of 10^-scale, a tie going toward zero
C4_HalfDownNearestTieTowardZero ==
  RoundedUnder("HALF_DOWN") => Renders(Nearest(TowardZero))

C7_DirectedModes ==
  /\ RoundedUnder("UP") => Renders(AwayFromZero)
  /\ RoundedUnder("DOWN") => Renders(TowardZero)
  /\ RoundedUnder("CEILING") => Renders(IF last.num.neg THEN TowardZero ELSE AwayFromZero)
  /\ RoundedUnder("FLOOR") => Renders(IF last.num.neg THEN AwayFromZero ELSE TowardZero)

\* C8, as stated: under UNNECESSARY format throws exactly when the number is
\* not a multiple of 10^-scale, and on a multiple it returns the string that
\* every other rounding mode returns
C8_UnnecessaryThrowsOrAgrees ==
  RoundedUnder("UNNECESSARY") =>
    /\ last.ret.threw <=> Remainder # 0
    /\ Remainder = 0 =>
         \A mode \in RoundingModes : format(parsedPattern, mode, last.num) = last.ret

\* C9: a call of format leaves the pattern text, the rule set and the rounding
\* mode as they were, whether it returns or throws, and two calls in a row on
\* the same number give back the same
C9_FormatChangesNothing ==
  [][/\ last'.op = "format" => UNCHANGED <<pattern, parsedPattern, roundingMode>>
     /\ (last.op = "format" /\ last'.op = "format" /\ last'.num = last.num) =>
          last'.ret = last.ret]_vars

\* C9, its case: a call of format that threw under UNNECESSARY after a rule
\* setter was called
C9_ThrowingCallReached ==
  /\ last.op = "format"
  /\ last.ret = Thrown("Rounding necessary")
  /\ roundingMode = "UNNECESSARY"
  /\ setterCalls > 0

\* C10: on every compiled pattern and under every rounding mode format(-0.0)
\* returns what format(0.0) returns: the positive prefix and suffix around
\* the digits, and no '-'
C10_NegativeZeroAsZero ==
  (FormattedFinite /\ last.num.c = 0 /\ last.num.neg) =>
    LET str == last.ret.str
        prefix == parsedPattern.positivePrefix
        suffix == parsedPattern.positiveSuffix
    IN /\ last.ret = format(parsedPattern, roundingMode, MathAbs(last.num))
       /\ ~last.ret.threw
       /\ Len(str) >= Len(prefix) + Len(suffix)
       /\ SubSeq(str, 1, Len(prefix)) = prefix
       /\ SubSeq(str, Len(str) - Len(suffix) + 1, Len(str)) = suffix
       /\ \A i \in 1..Len(str) : str[i] # "-"

\* C10, its case: -0.0 on the pattern with the explicit negative sub-pattern
\* '($#,##0.00)' gives "$0.00"
C10_NegativeZeroReached ==
  /\ FormattedFinite
  /\ last.num = Num(TRUE, 0, Prec)
  /\ pattern = AccountingPattern
  /\ last.ret = Returned(<<"$", "0", ".", "0", "0">>)

\* the text after the first unquoted ';' of the pattern
AfterSemicolon ==
  Substring(pattern, findUnquotedSemicolon(pattern) + 1, Len(pattern))

\* str is prefix, something, suffix
Wrapped(str, prefix, suffix) ==
  /\ Len(str) >= Len(prefix) + Len(suffix)
  /\ SubSeq(str, 1, Len(prefix)) = prefix
  /\ SubSeq(str, Len(str) - Len(suffix) + 1, Len(str)) = suffix

\* C11, as stated: on a pattern with an unquoted ';' the negative prefix and
\* suffix are the ones parsed from the text after it, the empty text included
\* (no '-' is prepended), and format puts them around a negative value; on a
\* pattern without one they are '-' + positivePrefix and positiveSuffix
C11_NegativeAffixesFromSubpattern ==
  /\ findUnquotedSemicolon(pattern) >= 0 =>
       /\ parsedPattern.negativePrefix = parseSubpattern(AfterSemicolon).prefix
       /\ parsedPattern.negativeSuffix = parseSubpattern(AfterSemicolon).suffix
  /\ findUnquotedSemicolon(pattern) < 0 =>
       /\ parsedPattern.negativePrefix = <<"-">> \o parsedPattern.positivePrefix
       /\ parsedPattern.negativeSuffix = parsedPattern.positiveSuffix
  /\ (FormattedFinite /\ ~last.ret.threw /\ last.num.neg /\ last.num.c # 0) =>
       Wrapped(last.ret.str, parsedPattern.negativePrefix, parsedPattern.negativeSuffix)

RECURSIVE HasUnquoted(_, _, _)
\* ch occurs in text outside quotes
HasUnquoted(text, ch, inQuote) ==
  IF Len(text) = 0 THEN FALSE
  ELSE IF Head(text) = "'" THEN HasUnquoted(Tail(text), ch, ~inQuote)
  ELSE (Head(text) = ch /\ ~inQuote) \/ HasUnquoted(Tail(text), ch, inQuote)

\* the text before the first unquoted ';' of the pattern, all of it without one
PositiveSubpattern ==
  IF findUnquotedSemicolon(pattern) >= 0
  THEN Substring(pattern, 0, findUnquotedSemicolon(pattern))
  ELSE pattern

\* the multiplier an unquoted '%' or per-mille sign of the positive
\* sub-pattern stands for
SignMultiplier ==
  IF HasUnquoted(PositiveSubpattern, "%", FALSE) THEN 100
  ELSE IF HasUnquoted(PositiveSubpattern, Permille, FALSE) THEN 1000
  ELSE 1

\* the sign is kept in the positive prefix or suffix
KeptLiteral(ch) ==
  HasUnquoted(PositiveSubpattern, ch, FALSE) =>
    Count(parsedPattern.positivePrefix, ch) + Count(parsedPattern.positiveSuffix, ch) > 0

\* C12, as stated: an unquoted '%' anywhere in the positive sub-pattern sets
\* the multiplier to 100, an unquoted per-mille sign to 1000, the sign stays
\* in the prefix or suffix, and format renders the number times the multiplier
C12_PercentAnywhereSetsMultiplier ==
  /\ parsedPattern.multiplier = SignMultiplier
  /\ KeptLiteral("%")
  /\ KeptLiteral(Permille)
  /\ FormattedFinite =>
       last.ret = Rendered(parsedPattern, roundingMode, Times(last.num, SignMultiplier))

\* C13, as stated: after construction and after every applyPattern and setter
\* call the digit bounds satisfy 0 <= minIntegerDigits <= maxIntegerDigits
\* and 0 <= minFractionDigits <= maxFractionDigits
C13_DigitBoundsOrdered ==
  /\ 0 <= parsedPattern.minIntegerDigits
  /\ parsedPattern.minIntegerDigits <= parsedPattern.maxIntegerDigits
  /\ 0 <= parsedPattern.minFractionDigits
  /\ parsedPattern.minFractionDigits <= parsedPattern.maxFractionDigits

\* the rule set of a freshly constructed DecimalFormat(p): the constructor
\* compiles the pattern field, which holds p unless p is empty
Constructed(p) == parsePattern(IF Len(p) > 0 THEN p ELSE DefaultPattern)

\* C14, as stated: after applyPattern(p), whatever the setters and earlier
\* patterns left, every field of the rule set is the one of a freshly
\* constructed DecimalFormat(p), for every string p
C14_ApplyPatternAsConstructed ==
  last.op = "applyPattern" => parsedPattern = Constructed(last.text)

\* the field each rule setter is named after
SetterField(op) ==
  CASE op = "setPositivePrefix" -> "positivePrefix"
    [] op = "setNegativePrefix" -> "negativePrefix"
    [] op = "setPositiveSuffix" -> "positiveSuffix"
    [] op = "setNegativeSuffix" -> "negativeSuffix"
    [] op = "setMinimumIntegerDigits" -> "minIntegerDigits"
    [] op = "setMaximumIntegerDigits" -> "maxIntegerDigits"
    [] op = "setMinimumFractionDigits" -> "minFractionDigits"
    [] op = "setMaximumFractionDigits" -> "maxFractionDigits"
    [] op = "setGroupingUsed" -> "groupingUsed"
    [] op = "setGroupingSize" -> "groupingSize"
    [] op = "setMultiplier" -> "multiplier"
    [] op = "setDecimalSeparatorAlwaysShown" -> "decimalSeparatorAlwaysShown"

RuleSetters ==
  {"setPositivePrefix", "setNegativePrefix", "setPositiveSuffix", "setNegativeSuffix",
   "setMinimumIntegerDigits", "setMaximumIntegerDigits", "setMinimumFractionDigits",
   "setMaximumFractionDigits", "setGroupingUsed", "setGroupingSize", "setMultiplier",
   "setDecimalSeparatorAlwaysShown"}

\* the value a setter call was given
SetterArgument(call) ==
  IF call.op \in {"setPositivePrefix", "setNegativePrefix", "setPositiveSuffix",
                  "setNegativeSuffix"} THEN call.text
  ELSE IF call.op \in {"setGroupingUsed", "setDecimalSeparatorAlwaysShown"} THEN call.flag
  ELSE call.int

Unparsable(text) ==
  \/ Len(text) = 0
  \/ text[1] \notin {"0", "1", "2", "3", "4", "5", "6", "7", "8", "9", "-", "+", "."}

\* C16: in every state, construction, applyPattern and setters behind it,
\* format(NaN) and format of a string that is no number throw and return
\* nothing; format(+Infinity) returns the infinity glyph alone and
\* format(-Infinity) returns '-' and the glyph, under every rounding mode,
\* prefix, suffix, multiplier, digit bound and grouping
C16_NaNThrowsInfinityBare ==
  last.op = "format" =>
    /\ (last.num.kind = "NaN" \/ (last.flag /\ Unparsable(last.text))) =>
         /\ last.ret.threw
         /\ last.ret.msg = "Cannot format NaN"
         /\ last.ret.str = <<>>
    /\ (~last.flag /\ last.num = PosInfinity) => last.ret = Returned(<<InfinityGlyph>>)
    /\ (~last.flag /\ last.num = NegInfinity) =>
         last.ret = Returned(<<"-", InfinityGlyph>>)

\* C16, its case: format(-Infinity) under UNNECESSARY after
\* setNegativePrefix('~')
C16_InfinityUnderUnnecessary ==
  /\ last.op = "format"
  /\ last.num = NegInfinity
  /\ roundingMode = "UNNECESSARY"
  /\ parsedPattern.negativePrefix = <<"~">>
  /\ last.ret = Returned(<<"-", InfinityGlyph>>)

\* the last call was format on a finite number in standard notation, and it
\* returned
RenderedStandard ==
  FormattedFinite /\ ~parsedPattern.useExponentialNotation /\ ~last.ret.threw

\* str without the prefix and the suffix of the sign of the number given
BodyOf(str, pp, num) ==
  IF num.neg /\ num.c # 0
  THEN SubSeq(str, Len(pp.negativePrefix) + 1, Len(str) - Len(pp.negativeSuffix))
  ELSE SubSeq(str, Len(pp.positivePrefix) + 1, Len(str) - Len(pp.positiveSuffix))

\* the part of a body before its '.', all of it without one
IntegerOf(body) ==
  IF IndexOf(body, ".") >= 0 THEN Substring(body, 0, IndexOf(body, ".")) ELSE body

\* the part of a body after its '.', empty without one
FractionOf(body) ==
  IF IndexOf(body, ".") >= 0 THEN Substring(body, IndexOf(body, ".") + 1, Len(body))
  ELSE <<>>

RECURSIVE WithoutCommas(_)
WithoutCommas(s) ==
  IF Len(s) = 0 THEN <<>>
  ELSE (IF Head(s) = "," THEN <<>> ELSE <<Head(s)>>) \o WithoutCommas(Tail(s))

\* the integer part format renders for the last number on the rule set pp
IntegerRendered(pp) ==
  IntegerOf(BodyOf(format(pp, roundingMode, last.num).str, pp, last.num))

\* int is digits in groups of g counted from the right, ',' between them:
\* the leftmost group has 1 to g digits, every other one exactly g
GroupedFromRight(int, g) ==
  /\ Len(int) > 0 => int[1] # ","
  /\ \A k \in 1..Len(int) : (int[k] = ",") <=> ((Len(int) - k + 1) % (g + 1) = 0)

\* C17: in standard notation, with grouping used and a grouping size g > 0,
\* the integer part is the zero-padded digit string cut into groups of g
\* digits from the right by ',' (none leading or trailing, the leftmost group
\* of 1 to g digits), and without its commas it is the integer part rendered
\* with grouping off; with grouping off or g = 0 it holds no ','
C17_GroupsFromTheRight ==
  RenderedStandard =>
    IF parsedPattern.groupingUsed /\ parsedPattern.groupingSize > 0
    THEN /\ GroupedFromRight(IntegerRendered(parsedPattern), parsedPattern.groupingSize)
         /\ WithoutCommas(IntegerRendered(parsedPattern))
              = IntegerRendered([parsedPattern EXCEPT !.groupingUsed = FALSE])
         /\ IntegerOf(BodyOf(last.ret.str, parsedPattern, last.num))
              = IntegerRendered(parsedPattern)
    ELSE Count(IntegerOf(BodyOf(last.ret.str, parsedPattern, last.num)), ",") = 0

\* C17, its case: 1234.5 on '#,##0' with the per-mille sign gives
\* "1,234,500" and the sign, two full groups and a leftmost group of one
C17_TwoSeparatorsReached ==
  /\ RenderedStandard
  /\ parsedPattern.groupingSize = 3
  /\ last.num = Num(FALSE, 1234500, Prec)
  /\ last.ret = Returned(<<"1", ",", "2", "3", "4", ",", "5", "0", "0", Permille>>)

\* the fraction format renders for the last number on the rule set pp
FractionRendered(pp) ==
  FractionOf(BodyOf(format(pp, roundingMode, last.num).str, pp, last.num))

\* frac is the digits full with trailing '0' characters removed, down to min
\* digits and no further
TrimmedTo(frac, full, min) ==
  /\ Len(frac) <= Len(full)
  /\ full = frac \o Repeat("0", Len(full) - Len(frac))
  /\ Len(frac) > min => frac[Len(frac)] # "0"

\* C18, as stated: in standard notation, on every rule set that construction,
\* applyPattern and the setters reach, the fraction rendered is the
\* maxFractionDigits digits of the rounded value without their trailing
\* zeros, of at least minFractionDigits and at most maxFractionDigits digits,
\* and the '.' is there exactly when the fraction is not empty or
\* decimalSeparatorAlwaysShown is set
C18_FractionBetweenBounds ==
  RenderedStandard =>
    /\ Len(FractionRendered(parsedPattern)) >= parsedPattern.minFractionDigits
    /\ Len(FractionRendered(parsedPattern)) <= parsedPattern.maxFractionDigits
    /\ TrimmedTo(FractionRendered(parsedPattern),
                 FractionRendered([parsedPattern EXCEPT
                                     !.minFractionDigits = parsedPattern.maxFractionDigits]),
                 parsedPattern.minFractionDigits)
    /\ (IndexOf(BodyOf(last.ret.str, parsedPattern, last.num), ".") >= 0)
         <=> (Len(FractionRendered(parsedPattern)) > 0
                \/ parsedPattern.decimalSeparatorAlwaysShown)

\* the digits of the integer part format renders for the last number on the
\* rule set pp
IntegerDigits(pp) == WithoutCommas(IntegerRendered(pp))

\* the digits of the integer part of the rounded magnitude: what a rule set
\* with minIntegerDigits = 1 renders, '0' for zero
PlainIntegerDigits == IntegerDigits([parsedPattern EXCEPT !.minIntegerDigits = 1])

HasDigit(str) ==
  \E k \in 1..Len(str) :
    str[k] \in {"0", "1", "2", "3", "4", "5", "6", "7", "8", "9"}

\* the positive sub-pattern has a digit placeholder; all of them are '#'
HasPlaceholder ==
  HasUnquoted(PositiveSubpattern, "0", FALSE) \/ HasUnquoted(PositiveSubpattern, "#", FALSE)

OnlyHashPlaceholders ==
  HasUnquoted(PositiveSubpattern, "#", FALSE) /\ ~HasUnquoted(PositiveSubpattern, "0", FALSE)

\* C20, as stated: on a pattern with a digit placeholder, what format returns
\* for a finite number is not empty and holds a digit; on a pattern whose
\* placeholders are all '#', 0 is rendered as '0'
C20_AlwaysADigit ==
  (FormattedFinite /\ ~last.ret.threw /\ HasPlaceholder) =>
    /\ Len(last.ret.str) > 0
    /\ HasDigit(last.ret.str)
    /\ (OnlyHashPlaceholders /\ last.num.c = 0 /\ ~parsedPattern.useExponentialNotation) =>
         BodyOf(last.ret.str, parsedPattern, last.num) = <<"0">>

\* C21, as stated: in standard notation the integer part rendered has at
\* least minIntegerDigits and at most maxIntegerDigits digits, the maximum
\* compiled from the pattern or set by setMaximumIntegerDigits
C21_IntegerDigitsWithinBounds ==
  RenderedStandard =>
    /\ Len(WithoutCommas(IntegerOf(BodyOf(last.ret.str, parsedPattern, last.num))))
         >= parsedPattern.minIntegerDigits
    /\ Len(WithoutCommas(IntegerOf(BodyOf(last.ret.str, parsedPattern, last.num))))
         <= parsedPattern.maxIntegerDigits

RECURSIVE QuotedChars(_, _)
\* the characters of text inside quoted spans, in order
QuotedChars(text, inQuote) ==
  IF Len(text) = 0 THEN <<>>
  ELSE IF Head(text) = "'" THEN QuotedChars(Tail(text), ~inQuote)
  ELSE (IF inQuote THEN <<Head(text)>> ELSE <<>>) \o QuotedChars(Tail(text), inQuote)

RECURSIVE WithoutQuoted(_, _)
\* text without its quoted spans and their quotes
WithoutQuoted(text, inQuote) ==
  IF Len(text) = 0 THEN <<>>
  ELSE IF Head(text) = "'" THEN WithoutQuoted(Tail(text), ~inQuote)
  ELSE (IF inQuote THEN <<>> ELSE <<Head(text)>>) \o WithoutQuoted(Tail(text), inQuote)

RECURSIVE IsSubsequence(_, _)
\* the characters of a occur in b in the same order
IsSubsequence(a, b) ==
  IF Len(a) = 0 THEN TRUE
  ELSE IF Len(b) = 0 THEN FALSE
  ELSE IF Head(a) = Head(b) THEN IsSubsequence(Tail(a), Tail(b))
  ELSE IsSubsequence(a, Tail(b))

\* the fields of a rule set that are no prefix or suffix
Counts(pp) ==
  <<pp.minIntegerDigits, pp.maxIntegerDigits, pp.minFractionDigits,
    pp.maxFractionDigits, pp.groupingUsed, pp.groupingSize,
    pp.decimalSeparatorAlwaysShown, pp.useExponentialNotation,
    pp.minExponentDigits, pp.multiplier>>

\* C22, as stated: the characters of the quoted spans of the positive
\* sub-pattern stand in order in its prefix and suffix, wherever the span
\* starts, without the quotes; the digit counts, the grouping, the exponent
\* and the multiplier are those of the sub-pattern without its quoted spans;
\* a ';' inside a quoted span does not split the pattern
C22_QuotedSpansLiteral ==
  (setterCalls = 0 /\ pattern = last.text /\ last.op \in {"new", "applyPattern"}) =>
    /\ IsSubsequence(QuotedChars(PositiveSubpattern, FALSE),
                     parsedPattern.positivePrefix \o parsedPattern.positiveSuffix)
    /\ Count(parsedPattern.positivePrefix \o parsedPattern.positiveSuffix, "'") = 0
    /\ Counts(parsedPattern) = Counts(parsePattern(WithoutQuoted(PositiveSubpattern, FALSE)))
    /\ ~HasUnquoted(pattern, ";", FALSE) =>
         /\ PositiveSubpattern = pattern
         /\ parsedPattern.negativePrefix = <<"-">> \o parsedPattern.positivePrefix

\* parseSubpattern has returned the rules of a sub-pattern without any '0'
\* or '#'
ReturnedWithoutDigits ==
  /\ scan.returned
  /\ Count(scan.subpattern, "0") = 0
  /\ Count(scan.subpattern, "#") = 0

\* C23, as stated: a sub-pattern without any '0' or '#' compiles to digit
\* counts that are all zero
C23_NoDigitsAllZero ==
  ReturnedWithoutDigits =>
    /\ scan.rules.minIntegerDigits = 0
    /\ scan.rules.maxIntegerDigits = 0
    /\ scan.rules.minFractionDigits = 0
    /\ scan.rules.maxFractionDigits = 0
    /\ scan.rules.minExponentDigits = 0

\* C23, amended: a sub-pattern without any '0' or '#' compiles to fraction
\* and exponent digit counts of zero; its integer digit counts are zero when
\* it holds an unquoted ',' or '.', and otherwise the initial values,
\* minIntegerDigits = 1 and maxIntegerDigits = Number.MAX_SAFE_INTEGER
C23_NoDigitsInitialCounts ==
  ReturnedWithoutDigits =>
    /\ scan.rules.minFractionDigits = 0
    /\ scan.rules.maxFractionDigits = 0
    /\ scan.rules.minExponentDigits = 0
    /\ IF HasUnquoted(scan.subpattern, ",", FALSE) \/ HasUnquoted(scan.subpattern, ".", FALSE)
       THEN scan.rules.minIntegerDigits = 0 /\ scan.rules.maxIntegerDigits = 0
       ELSE /\ scan.rules.minIntegerDigits = 1
            /\ scan.rules.maxIntegerDigits = MAX_SAFE_INTEGER

\* C23, its case: parseSubpattern has returned the rules of '%'
C23_PercentAloneReached ==
  /\ ReturnedWithoutDigits
  /\ scan.subpattern = <<"%">>
  /\ scan.rules.suffix = <<>>
  /\ scan.rules.prefix = <<"%">>
  /\ scan.rules.multiplier = 100
  /\ scan.rules.minIntegerDigits = 1

RECURSIVE RunOf(_, _)
\* the longest run of characters of set that s starts with
RunOf(s, set) ==
  IF Len(s) = 0 \/ Head(s) \notin set THEN <<>>
  ELSE <<Head(s)>> \o RunOf(Tail(s), set)

RECURSIVE FromFirst(_, _)
\* s from its first character of set on, empty without one
FromFirst(s, set) ==
  IF Len(s) = 0 \/ Head(s) \in set THEN s ELSE FromFirst(Tail(s), set)

\* the number text of a sub-pattern: outside quoted spans, the run of '0',
\* '#', ',' and '.' that starts at the first of them
NumberText(sub) == RunOf(FromFirst(WithoutQuoted(sub, FALSE), NumberChars), NumberChars)

\* the integer text I and the fraction text F of a number text
IntegerText(text) ==
  IF IndexOf(text, ".") >= 0 THEN Substring(text, 0, IndexOf(text, ".")) ELSE text

FractionText(text) ==
  IF IndexOf(text, ".") >= 0 THEN Substring(text, IndexOf(text, ".") + 1, Len(text))
  ELSE <<>>

\* what follows the number text outside quoted spans
AfterNumberText(sub) ==
  SubSeq(FromFirst(WithoutQuoted(sub, FALSE), NumberChars),
         Len(NumberText(sub)) + 1,
         Len(FromFirst(WithoutQuoted(sub, FALSE), NumberChars)))

\* the '0' characters directly after the 'E' that follows the number text
ExponentZeros(after) ==
  IF Len(after) > 0 /\ Head(after) \in {"E", "e"}
  THEN Len(RunOf(Tail(after), {"0"}))
  ELSE 0

\* C24: the rules of a sub-pattern with number text I or I.F have
\* minIntegerDigits = the '0' of I, maxIntegerDigits = the '0' and '#' of I,
\* minFractionDigits = the '0' of F, maxFractionDigits = the '0' and '#' of
\* F, whatever the order of '0' and '#' and wherever the commas;
\* minExponentDigits = the '0' directly after 'E'; and
\* decimalSeparatorAlwaysShown exactly when there is a '.' and F is empty
C24_DigitCountsFromNumberText ==
  (scan.returned /\ Len(NumberText(scan.subpattern)) > 0) =>
    /\ scan.rules.minIntegerDigits = Count(IntegerText(NumberText(scan.subpattern)), "0")
    /\ scan.rules.maxIntegerDigits =
         Count(IntegerText(NumberText(scan.subpattern)), "0")
           + Count(IntegerText(NumberText(scan.subpattern)), "#")
    /\ scan.rules.minFractionDigits = Count(FractionText(NumberText(scan.subpattern)), "0")
    /\ scan.rules.maxFractionDigits =
         Count(FractionText(NumberText(scan.subpattern)), "0")
           + Count(FractionText(NumberText(scan.subpattern)), "#")
    /\ scan.rules.minExponentDigits = ExponentZeros(AfterNumberText(scan.subpattern))
    /\ scan.rules.decimalSeparatorAlwaysShown
         <=> (/\ IndexOf(NumberText(scan.subpattern), ".") >= 0
              /\ Len(FractionText(NumberText(scan.subpattern))) = 0)

\* C24, its case: parseSubpattern has returned the rules of '#0.0', a '#'
\* before a '0'
C24_HashBeforeZeroReached ==
  /\ scan.returned
  /\ scan.subpattern = <<"#", "0", ".", "0">>
  /\ scan.rules.minIntegerDigits = 1
  /\ scan.rules.maxIntegerDigits = 2
  /\ scan.rules.minFractionDigits = 1
  /\ scan.rules.maxFractionDigits = 1

\* C25: the scanner leaves the exponent state for the suffix state only
\* after it has counted at least one exponent digit
C25_SuffixAfterExponentDigit ==
  [][(scan.sc.state = "exponent" /\ scan'.sc.state = "suffix")
       => scan.sc.minExponentDigits >= 1]_vars

\* C26: a compiled pattern that uses grouping has a grouping size of at
\* least 1
C26_GroupingSizePositive ==
  parsedPattern.groupingUsed => parsedPattern.groupingSize >= 1

\* format returned the exponential notation of a finite number other than
\* zero under a pattern without multiplier
RenderedExponential ==
  /\ FormattedFinite
  /\ parsedPattern.useExponentialNotation
  /\ parsedPattern.multiplier = 1
  /\ last.num.c # 0
  /\ ~last.ret.threw

\* the mantissa and the exponent of a body in exponential notation
MantissaOf(body) == Substring(body, 0, IndexOf(body, "E"))

ExponentOf(body) ==
  IF Signed(Substring(body, IndexOf(body, "E") + 1, Len(body)))
  THEN -DigitsToNat(Substring(body, IndexOf(body, "E") + 2, Len(body)))
  ELSE DigitsToNat(Substring(body, IndexOf(body, "E") + 1, Len(body)))

\* the magnitude a body in exponential notation denotes, in units of
\* 10^-(Prec + 2)
DenotedMagnitude(body) ==
  DigitsToNat(IntegerOf(MantissaOf(body)) \o FractionOf(MantissaOf(body)))
    * Pow10(ExponentOf(body) - Len(FractionOf(MantissaOf(body))) + Prec + 2)

\* the number format returned, and the number it was given, in units of
\* 10^-(Prec + 2)
Denoted ==
  (IF IsNegative(last.num) THEN -1 ELSE 1)
    * DenotedMagnitude(BodyOf(last.ret.str, parsedPattern, last.num))

Given == (IF IsNegative(last.num) THEN -1 ELSE 1) * last.num.c * 100

\* C27: in exponential notation the number format returns under CEILING is
\* at least the number given, and under FLOOR at most the number given,
\* whatever its sign
C27_DirectionalBySignExponential ==
  RenderedExponential =>
    /\ roundingMode = "CEILING" => Denoted >= Given
    /\ roundingMode = "FLOOR" => Denoted <= Given

\* C28: in exponential notation the mantissa of a number other than zero
\* has one integer digit, from 1 to 9: a mantissa that rounding carries to
\* 10 is rendered as 1 with the exponent one higher
C28_MantissaNormalised ==
  RenderedExponential =>
    /\ Len(IntegerOf(MantissaOf(BodyOf(last.ret.str, parsedPattern, last.num)))) = 1
    /\ IntegerOf(MantissaOf(BodyOf(last.ret.str, parsedPattern, last.num))) # <<"0">>

\* the place of a scanner state in the order prefix, number, exponent, suffix
Rank(state) ==
  CASE state = "prefix" -> 0
    [] state = "number" -> 1
    [] state = "exponent" -> 2
    [] OTHER -> 3

\* the integer and fraction digit counts and the grouping of the rules
DigitRules(rules) ==
  <<rules.minIntegerDigits, rules.maxIntegerDigits, rules.minFractionDigits,
    rules.maxFractionDigits, rules.groupingUsed, rules.groupingSize,
    rules.decimalSeparatorAlwaysShown>>

\* a step of the scanner takes the character at i, and only that one, or
\* returns
OneCharacter ==
  \/ scan'.i = scan.i + 1 /\ ~scan'.returned /\ scan.i < Len(scan.subpattern)
  \/ scan'.i = scan.i /\ scan'.returned /\ scan'.sc = scan.sc

\* an unquoted character taken after the number state goes to the suffix,
\* or is counted as an exponent digit, and to nothing else
ToSuffixOrExponent(ch) ==
  /\ scan'.sc.numberPart = scan.sc.numberPart
  /\ scan'.sc.prefix = scan.sc.prefix
  /\ scan'.sc.multiplier = scan.sc.multiplier
  /\ DigitRules(Scanned(scan'.sc)) = DigitRules(Scanned(scan.sc))
  /\ \/ /\ scan'.sc.suffix = scan.sc.suffix \o <<ch>>
        /\ scan'.sc.minExponentDigits = scan.sc.minExponentDigits
     \/ /\ scan.sc.state = "exponent" /\ ch = "0"
        /\ scan'.sc.suffix = scan.sc.suffix
        /\ scan'.sc.minExponentDigits = scan.sc.minExponentDigits + 1

\* C29: the scanner takes one character per step and returns for every
\* string; its state never moves back in the order prefix, number,
\* exponent, suffix; after the number state an unquoted character is
\* appended to the suffix or counted as an exponent digit, and changes no
\* digit count and no grouping setting
C29_ScannerForward ==
  /\ [][/\ OneCharacter
        /\ Rank(scan'.sc.state) >= Rank(scan.sc.state)
        /\ (/\ scan'.i = scan.i + 1
            /\ Rank(scan.sc.state) >= 2
            /\ ~scan.sc.inQuote
            /\ scan.subpattern[scan'.i] # "'")
             => ToSuffixOrExponent(scan.subpattern[scan'.i])]_vars
  /\ <>scan.returned

\* C29, its case: parseSubpattern has returned from a sub-pattern with
\* number characters after its exponent, which are in the suffix
C29_NumberCharsInSuffixReached ==
  /\ scan.returned
  /\ scan.subpattern = <<"0", "E", "#", "0">>
  /\ scan.sc.state = "suffix"
  /\ scan.sc.suffix = <<"#", "0">>
  /\ scan.sc.numberPart = <<"0">>

\* format returned a number body with a digit, and with no digit other than
\* '0'
ZeroRendered ==
  /\ FormattedFinite
  /\ ~last.ret.threw
  /\ HasDigit(BodyOf(last.ret.str, parsedPattern, last.num))
  /\ \A k \in 1..Len(BodyOf(last.ret.str, parsedPattern, last.num)) :
       DigitValue(BodyOf(last.ret.str, parsedPattern, last.num)[k]) < 1

\* C30, as stated: a result whose digits are all '0' has the positive prefix
\* and the positive suffix around it
C30_ZeroResultPositiveAffixes ==
  ZeroRendered =>
    last.ret.str = parsedPattern.positivePrefix
                     \o BodyOf(last.ret.str, parsedPattern, last.num)
                     \o parsedPattern.positiveSuffix

\* the number body format renders for 0 in standard notation
ZeroBody ==
  BodyOf(format(parsedPattern, roundingMode, Num(FALSE, 0, Prec)).str,
         parsedPattern, Num(FALSE, 0, Prec))

\* C30, amended: the prefix and the suffix go by the sign of the value
\* before rounding. A result whose digits are all '0' has the negative
\* prefix and suffix when the value is below zero, the positive ones
\* otherwise; in standard notation its body is the body of format(0)
C30_ZeroResultAffixesBySign ==
  ZeroRendered =>
    /\ last.ret.str =
         (IF last.num.neg /\ last.num.c # 0
          THEN parsedPattern.negativePrefix
          ELSE parsedPattern.positivePrefix)
           \o BodyOf(last.ret.str, parsedPattern, last.num)
           \o (IF last.num.neg /\ last.num.c # 0
               THEN parsedPattern.negativeSuffix
               ELSE parsedPattern.positiveSuffix)
    /\ ~parsedPattern.useExponentialNotation
         => BodyOf(last.ret.str, parsedPattern, last.num) = ZeroBody

\* C30, its case: -0.001 on '0.00' gives "-0.00"
C30_NegativeZeroResultReached ==
  /\ FormattedFinite
  /\ pattern = <<"0", ".", "0", "0">>
  /\ roundingMode = "HALF_EVEN"
  /\ last.num = Num(TRUE, 1, Prec)
  /\ last.ret.str = <<"-", "0", ".", "0", "0">>

====
